---- MODULE Spec2Model ----
(***************************************************************************)
(* A model of the four lookup components of forensics_tools               *)
(* (ArinWhois, IPReputation, IPGeoLocation, MacAddressLookup): one Python  *)
(* process that calls the public entry point of one component any number   *)
(* of times, each call fetching one remote response per identifier, or     *)
(* that runs cli.py once.                                                  *)
(***************************************************************************)
EXTENDS Integers, Sequences, FiniteSets, TLC

(***************************************************************************)
(* Bounds of the model.                                                    *)
(***************************************************************************)
\* longest list handed to a lookup
MaxLen == 2
\* the identifiers looked up
Ids == {"id1", "id2"}
\* abuseConfidenceScore values the reputation source answers with
Scores == {-1, 0, 1, 10, 25, 26, 50, 99, 100, 101}

(***************************************************************************)
(* Python values.  A str is the sequence of its pieces, so that formatting *)
(* (f-strings, json.dumps, strip) is computed and not assumed.             *)
(***************************************************************************)
None == [t |-> "none"]
StrV(p) == [t |-> "str", v |-> p]
BoolV(b) == [t |-> "bool", b |-> b]
IntV(n) == [t |-> "int", n |-> n]
ListV(l) == [t |-> "list", l |-> l]
Dict(f) == [t |-> "dict", d |-> f]
EmptyDict == Dict(<<>>)
\* the body of a response that is not JSON (an HTML error page, an empty body)
NotJson == [t |-> "notjson"]

\* bool(x) of Python
Truthy(x) ==
    CASE x.t = "none" -> FALSE
      [] x.t = "str" -> x.v # <<>>
      [] x.t = "bool" -> x.b
      [] x.t = "int" -> x.n # 0
      [] x.t = "list" -> x.l # <<>>
      [] x.t = "dict" -> DOMAIN x.d # {}
      [] OTHER -> TRUE

\* d[k1][k2]...: ok is FALSE where Python raises KeyError
RECURSIVE Path(_, _)
Path(x, keys) ==
    IF keys = <<>> THEN [ok |-> TRUE, val |-> x]
    ELSE IF x.t = "dict" /\ Head(keys) \in DOMAIN x.d
         THEN Path(x.d[Head(keys)], Tail(keys))
         ELSE [ok |-> FALSE, val |-> None]

(***************************************************************************)
(* Remote responses.                                                       *)
(***************************************************************************)
Http(status, body) == [kind |-> "http", status |-> status, body |-> body]
Timeout == [kind |-> "timeout", status |-> 0, body |-> NotJson]
ConnErr == [kind |-> "connerr", status |-> 0, body |-> NotJson]

\* resp is an HTTP response of the given status code
IsHttp(resp, status) == resp.kind = "http" /\ resp.status = status

\* the value the remote source holds in field f for identifier x
Val(f, x) == StrV(<<f, ":", x>>)

\* dict d without key k
Without(d, k) == Dict([j \in DOMAIN d.d \ {k} |-> d.d[j]])

\* a key that a response leaves out
Absent == [t |-> "absent"]
\* the dict of the pairs <<key, value>> whose value is not Absent
DictOf(pairs) ==
    LET present == {p \in pairs : p[2] # Absent}
    IN  Dict([k \in {p[1] : p \in present} |-> (CHOOSE p \in present : p[1] = k)[2]])
\* str(x) of Python, as used by an f-string
Format(x) ==
    CASE x.t = "str" -> x.v
      [] x.t = "none" -> <<"None">>
      [] x.t = "bool" -> IF x.b THEN <<"True">> ELSE <<"False">>
      [] OTHER -> <<"?">>

(***************************************************************************)
(* ArinWhois (src/arin_whois_lookup.py)                                    *)
(***************************************************************************)
\* {"$": v}, the way the registry wraps a leaf value
Leaf(v) == IF v = Absent THEN Absent ELSE Dict("$" :> v)
\* the JSON document of the registry with the four consumed leaves
ArinBody(org, start, end, cidr) ==
    Dict("net" :> Dict(
        ("orgRef" :> DictOf({<<"@name", org>>})) @@
        ("netBlocks" :> Dict("netBlock" :> DictOf({
            <<"startAddress", Leaf(start)>>,
            <<"endAddress", Leaf(end)>>,
            <<"cidrLength", Leaf(cidr)>>})))))
ArinFull(x) == ArinBody(Val("org", x), Val("start", x), Val("end", x), Val("cidr", x))
ArinFields == {"org", "start", "end", "cidr"}
\* the full document for x with the leaf f left out
ArinMissing(x, f) ==
    ArinBody(IF f = "org" THEN Absent ELSE Val("org", x),
             IF f = "start" THEN Absent ELSE Val("start", x),
             IF f = "end" THEN Absent ELSE Val("end", x),
             IF f = "cidr" THEN Absent ELSE Val("cidr", x))
\* the document for x whose organisation name and start address are ""
ArinBlank(x) == ArinBody(StrV(<<>>), StrV(<<>>), Val("end", x), Val("cidr", x))
\* what the registry may answer to a request for x
ArinResponses(x) ==
    {Http(200, ArinFull(x)), Http(200, ArinBlank(x)), Http(404, NotJson), Timeout, ConnErr}
    \cup {Http(200, ArinMissing(x, f)) : f \in ArinFields}

OrgPath == <<"net", "orgRef", "@name">>
StartPath == <<"net", "netBlocks", "netBlock", "startAddress", "$">>
EndPath == <<"net", "netBlocks", "netBlock", "endAddress", "$">>
CidrPath == <<"net", "netBlocks", "netBlock", "cidrLength", "$">>

\* mutant of _get_whois_json: the assignment cls.data = response.json() is lost
ArinWhois_get_whois_json_NoStore(data, resp) == data

\* _get_whois_json: the new value of the class attribute ArinWhois.data;
\* every failure (a status other than 200, Timeout, RequestException, which
\* response.json() raises too) is caught and leaves the attribute as it was
ArinWhois_get_whois_json(data, resp) ==
    IF resp.kind = "http" /\ resp.status = 200 /\ resp.body # NotJson
    THEN resp.body
    ELSE data

ArinWhois_get_registered_organization(data) ==
    LET name == Path(data, OrgPath)
    IN  IF ~name.ok THEN None
        ELSE IF ~Truthy(name.val) THEN StrV(<<"registered organization unavailable">>)
        ELSE name.val

ArinWhois_get_network_range(data) ==
    LET start == Path(data, StartPath)
        end == Path(data, EndPath)
    IN  IF ~start.ok THEN None
        ELSE IF ~Truthy(start.val) THEN StrV(<<"netblock range unavailable">>)
        ELSE IF ~end.ok THEN None
        ELSE StrV(Format(start.val) \o <<"-">> \o Format(end.val))

ArinWhois_get_cidr_range(data) ==
    LET start == Path(data, StartPath)
        cidr == Path(data, CidrPath)
    IN  IF ~start.ok THEN None
        ELSE IF ~Truthy(start.val) THEN StrV(<<"CIDR range unavailable">>)
        ELSE IF ~cidr.ok THEN None
        ELSE StrV(Format(start.val) \o <<"/">> \o Format(cidr.val))

\* the dict query_whois builds for one identifier from the class attribute
ArinRecord(item, data) ==
    [ip_address |-> StrV(<<item>>),
     organization |-> ArinWhois_get_registered_organization(data),
     network |-> ArinWhois_get_network_range(data),
     cidr |-> ArinWhois_get_cidr_range(data)]

(***************************************************************************)
(* MacAddressLookup (src/mac_address_vendor_lookup.py)                     *)
(***************************************************************************)
MacBody(isRand, company, address, country) ==
    DictOf({<<"isRand", isRand>>, <<"company", company>>,
            <<"address", address>>, <<"country", country>>})
MacFull(x, rand) ==
    MacBody(BoolV(rand), Val("company", x), Val("address", x), Val("country", x))
MacFields == {"isRand", "company", "address", "country"}
\* the full document for x (isRand as given) with the key f left out
MacMissing(x, rand, f) == Without(MacFull(x, rand), f)
\* the document for x whose address and country are ""
MacBlank(x) == MacBody(BoolV(FALSE), Val("company", x), StrV(<<>>), StrV(<<>>))
\* what the vendor source may answer to a request for x
MacResponses(x) ==
    {Http(200, MacFull(x, FALSE)), Http(200, MacFull(x, TRUE)),
     Http(200, MacMissing(x, TRUE, "company")), Http(200, MacBlank(x)),
     Http(400, NotJson), Http(401, NotJson), Http(429, NotJson), Http(404, NotJson),
     Timeout, ConnErr}
    \cup {Http(200, MacMissing(x, FALSE, f)) : f \in MacFields}

\* mutant of _get_json_data: a 429 is reported and the call returns None
MacAddressLookup_get_json_data_RateLimitReturns(data, resp) ==
    IF resp.kind # "http" THEN [end |-> "raise", data |-> data]
    ELSE IF resp.status \in {400, 401} THEN [end |-> "exit", data |-> data]
    ELSE IF resp.status = 200
         THEN IF resp.body = NotJson THEN [end |-> "raise", data |-> data]
              ELSE [end |-> "ok", data |-> resp.body]
    ELSE [end |-> "ok", data |-> data]

\* _get_json_data: how the call ends ("ok": it returns, "exit": sys.exit(1),
\* "raise": an exception leaves it) and the new value of the class attribute
\* MacAddressLookup.data.  requests.get is not inside a try.
MacAddressLookup_get_json_data(data, resp) ==
    IF resp.kind # "http" THEN [end |-> "raise", data |-> data]
    ELSE IF resp.status \in {400, 401, 429} THEN [end |-> "exit", data |-> data]
    ELSE IF resp.status = 200
         THEN IF resp.body = NotJson THEN [end |-> "raise", data |-> data]
              ELSE [end |-> "ok", data |-> resp.body]
    ELSE [end |-> "ok", data |-> data]

\* mutant of _get_registered_organization: the company is returned when there is one
MacAddressLookup_get_registered_organization_CompanyFirst(data) ==
    LET rand == Path(data, <<"isRand">>)
        company == Path(data, <<"company">>)
    IN  IF company.ok THEN company.val
        ELSE IF rand.ok /\ rand.val = BoolV(TRUE) THEN StrV(<<"randomly assigned">>)
        ELSE None

MacAddressLookup_get_registered_organization(data) ==
    LET rand == Path(data, <<"isRand">>)
        company == Path(data, <<"company">>)
    IN  IF ~rand.ok THEN None
        ELSE IF rand.val = BoolV(TRUE) THEN StrV(<<"randomly assigned">>)
        ELSE IF rand.val = BoolV(FALSE)
             THEN IF company.ok THEN company.val ELSE None
        ELSE None

MacAddressLookup_get_registered_organization_address(data) ==
    LET address == Path(data, <<"address">>)
    IN  IF ~address.ok THEN None
        ELSE IF ~Truthy(address.val) THEN StrV(<<"address unavailable">>)
        ELSE address.val

MacAddressLookup_get_registered_organization_country(data) ==
    LET country == Path(data, <<"country">>)
    IN  IF ~country.ok THEN None
        ELSE IF ~Truthy(country.val) THEN StrV(<<"country unavailable">>)
        ELSE country.val

\* the dict lookup_address_information builds for one identifier
MacRecord(item, data) ==
    [mac_address |-> StrV(<<item>>),
     registered_organization |-> MacAddressLookup_get_registered_organization(data),
     organization_address |-> MacAddressLookup_get_registered_organization_address(data),
     country |-> MacAddressLookup_get_registered_organization_country(data)]

(***************************************************************************)
(* json.dumps, str.strip('"'), str.split(" ", 1)[0] and int() on the       *)
(* pieces of a str.                                                        *)
(***************************************************************************)
FloatV(p) == [t |-> "float", repr |-> p]
Quote == "\""
Digit(d) == CASE d = 0 -> "0" [] d = 1 -> "1" [] d = 2 -> "2" [] d = 3 -> "3"
              [] d = 4 -> "4" [] d = 5 -> "5" [] d = 6 -> "6" [] d = 7 -> "7"
              [] d = 8 -> "8" [] OTHER -> "9"
RECURSIVE NatStr(_)
NatStr(n) == IF n < 10 THEN Digit(n) ELSE NatStr(n \div 10) \o Digit(n % 10)
IntStr(n) == IF n < 0 THEN "-" \o NatStr(0 - n) ELSE NatStr(n)

RECURSIVE Dumps(_)
RECURSIVE DumpsItems(_)
\* json.dumps(x), as the pieces of the resulting str
Dumps(x) ==
    CASE x.t = "str" -> <<Quote>> \o x.v \o <<Quote>>
      [] x.t = "none" -> <<"null">>
      [] x.t = "bool" -> IF x.b THEN <<"true">> ELSE <<"false">>
      [] x.t = "int" -> <<IntStr(x.n)>>
      [] x.t = "float" -> x.repr
      [] x.t = "list" -> <<"[">> \o DumpsItems(x.l) \o <<"]">>
      [] OTHER -> <<"{...}">>
DumpsItems(l) ==
    IF l = <<>> THEN <<>>
    ELSE IF Len(l) = 1 THEN Dumps(l[1])
    ELSE Dumps(l[1]) \o <<", ">> \o DumpsItems(Tail(l))

RECURSIVE LStrip(_)
LStrip(p) == IF p # <<>> /\ Head(p) = Quote THEN LStrip(Tail(p)) ELSE p
RECURSIVE RStrip(_)
RStrip(p) == IF p # <<>> /\ p[Len(p)] = Quote THEN RStrip(SubSeq(p, 1, Len(p) - 1)) ELSE p
\* s.strip('"')
Strip(p) == RStrip(LStrip(p))
RECURSIVE FirstWord(_)
\* s.split(sep=" ", maxsplit=1)[0]
FirstWord(p) == IF p = <<>> \/ Head(p) = " " THEN <<>> ELSE <<Head(p)>> \o FirstWord(Tail(p))
\* int(s): ok is FALSE where Python raises ValueError
ParseInt(p) ==
    IF \E n \in Scores : p = <<IntStr(n)>>
    THEN [ok |-> TRUE, n |-> CHOOSE n \in Scores : p = <<IntStr(n)>>]
    ELSE [ok |-> FALSE, n |-> 0]

(***************************************************************************)
(* IPReputation (src/ip_reputation_lookup.py)                              *)
(***************************************************************************)
AbuseFields == {"ipAddress", "domain", "hostnames", "usageType", "isp", "countryCode",
                "abuseConfidenceScore", "isWhitelisted", "isTor", "totalReports",
                "lastReportedAt"}
AbuseData(x, score) ==
    Dict([f \in AbuseFields |->
        CASE f = "hostnames" -> ListV(<<Val(f, x)>>)
          [] f = "abuseConfidenceScore" -> IntV(score)
          [] f = "isWhitelisted" -> BoolV(FALSE)
          [] f = "isTor" -> BoolV(TRUE)
          [] f = "totalReports" -> IntV(7)
          [] f = "lastReportedAt" -> None
          [] OTHER -> Val(f, x)])
AbuseFull(x, score) == Dict("data" :> AbuseData(x, score))
\* the full document for x with data[f] left out
AbuseMissing(x, f) == Dict("data" :> Without(AbuseData(x, 50), f))
\* the error document the source sends with 401, 422 and 429
AbuseError(status) ==
    Dict("errors" :> ListV(<<Dict(("detail" :> StrV(<<"error detail">>)) @@
                                   ("status" :> IntV(status)))>>))
\* what the reputation source may answer to a request for x
AbuseResponses(x) ==
    {Http(200, AbuseFull(x, score)) : score \in Scores}
    \cup {Http(200, AbuseMissing(x, f)) : f \in AbuseFields}
    \cup {Http(200, EmptyDict), Http(200, Dict("data" :> EmptyDict))}
    \cup {Http(status, AbuseError(status)) : status \in {401, 422, 429}}
    \cup {Http(401, EmptyDict), Http(500, EmptyDict), Http(503, NotJson), Timeout, ConnErr}

\* decoded_response["errors"][0]['detail'] can be read
HasErrorDetail(body) ==
    /\ Path(body, <<"errors">>).ok
    /\ Path(body, <<"errors">>).val.t = "list"
    /\ Path(body, <<"errors">>).val.l # <<>>
    /\ Path(Path(body, <<"errors">>).val.l[1], <<"detail">>).ok

\* mutant of _get_json_data: a timeout or connection error is reported and the
\* call returns None
IPReputation_get_json_data_TimeoutReturns(resp) ==
    IF resp.kind # "http" THEN [end |-> "ok", ret |-> None]
    ELSE IF resp.body = NotJson THEN [end |-> "raise", ret |-> None]
    ELSE IF resp.status \in {401, 422, 429}
         THEN IF HasErrorDetail(resp.body) THEN [end |-> "ok", ret |-> None]
              ELSE [end |-> "raise", ret |-> None]
    ELSE IF resp.status = 200 THEN [end |-> "ok", ret |-> resp.body]
    ELSE [end |-> "ok", ret |-> None]

\* _get_json_data: how the call ends and the value it returns
IPReputation_get_json_data(resp) ==
    IF resp.kind # "http" THEN [end |-> "exit", ret |-> None]
    ELSE IF resp.body = NotJson THEN [end |-> "raise", ret |-> None]
    ELSE IF resp.status \in {401, 422, 429}
         THEN IF HasErrorDetail(resp.body) THEN [end |-> "ok", ret |-> None]
              ELSE [end |-> "raise", ret |-> None]
    ELSE IF resp.status = 200 THEN [end |-> "ok", ret |-> resp.body]
    ELSE [end |-> "ok", ret |-> None]

IPReputation_determine_abuse_level(confidence_score) ==
    IF confidence_score = 0 THEN StrV(<<"not malicious">>)
    ELSE IF confidence_score = 100
         THEN StrV(<<"is malicious and warrants additional investigation">>)
    ELSE IF 100 > confidence_score /\ confidence_score > 25
         THEN StrV(<<"likley malicious and warrants further investigation">>)
    ELSE IF 0 < confidence_score /\ confidence_score <= 25
         THEN StrV(<<"likley not malicious but warrants further investigation">>)
    ELSE None

\* _decoded_json: end is "raise" where a KeyError or ValueError leaves it
IPReputation_decoded_json(json_data) ==
    LET F(f) == Path(json_data, <<"data", f>>)
        D(f) == Dumps(F(f).val)
    IN  IF \E f \in AbuseFields : ~F(f).ok THEN [end |-> "raise", rec |-> None]
        ELSE IF ~ParseInt(D("abuseConfidenceScore")).ok THEN [end |-> "raise", rec |-> None]
        ELSE [end |-> "ok", rec |->
            [ip_address |-> StrV(Strip(D("ipAddress"))),
             domain_name |-> StrV(Strip(D("domain"))),
             host_name |-> StrV(D("hostnames")),
             usage_type |-> StrV(Strip(D("usageType"))),
             isp_name |-> StrV(Strip(D("isp"))),
             country_code |-> StrV(Strip(D("countryCode"))),
             confidence_of_abuse |-> StrV(Strip(D("abuseConfidenceScore"))),
             level_of_abuse |->
                 IPReputation_determine_abuse_level(ParseInt(D("abuseConfidenceScore")).n),
             white_listed |-> StrV(Strip(D("isWhitelisted"))),
             tor_node |-> StrV(Strip(D("isTor"))),
             number_of_times_reported |-> StrV(Strip(D("totalReports"))),
             date_last_reported |-> StrV(Strip(D("lastReportedAt")))]]

(***************************************************************************)
(* IPGeoLocation (src/ip_geolocation_lookup.py)                            *)
(***************************************************************************)
GeoFields == {"query", "org", "isp", "countryCode", "regionName", "city", "lat", "lon",
              "timezone", "as"}
GeoFull(x) ==
    Dict([f \in GeoFields \cup {"status"} |->
        CASE f = "status" -> StrV(<<"success">>)
          [] f \in {"lat", "lon"} -> FloatV(<<f, ":", x>>)
          [] f = "as" -> StrV(<<"AS", ":", x, " ", "operator">>)
          [] OTHER -> Val(f, x)])
\* the full document for x with the key f left out
GeoMissing(x, f) == Without(GeoFull(x), f)
\* the document the source sends for a query it rejects
GeoFail(x) ==
    Dict(("status" :> StrV(<<"fail">>)) @@ ("message" :> StrV(<<"invalid query">>)) @@
         ("query" :> StrV(<<x>>)))
\* what the geolocation source may answer to a request for x
GeoResponses(x) ==
    {Http(200, GeoFull(x)), Http(200, GeoFail(x)), Http(200, EmptyDict),
     Http(429, EmptyDict), Http(503, NotJson), Timeout, ConnErr}
    \cup {Http(200, GeoMissing(x, f)) : f \in GeoFields}

\* mutant of _get_json_data: the document is returned whatever its status says
IPGeoLocation_get_json_data_NoStatusCheck(resp) ==
    IF resp.kind # "http" THEN [end |-> "exit", ret |-> None]
    ELSE IF resp.body = NotJson THEN [end |-> "raise", ret |-> None]
    ELSE IF resp.status = 200 THEN [end |-> "ok", ret |-> resp.body]
    ELSE [end |-> "ok", ret |-> None]

\* _get_json_data: how the call ends and the value it returns
IPGeoLocation_get_json_data(resp) ==
    IF resp.kind # "http" THEN [end |-> "exit", ret |-> None]
    ELSE IF resp.body = NotJson THEN [end |-> "raise", ret |-> None]
    ELSE IF resp.status = 200
         THEN LET query_status == Path(resp.body, <<"status">>)
              IN  IF ~query_status.ok THEN [end |-> "raise", ret |-> None]
                  ELSE IF query_status.val = StrV(<<"fail">>) THEN [end |-> "ok", ret |-> None]
                  ELSE IF query_status.val = StrV(<<"success">>)
                       THEN [end |-> "ok", ret |-> resp.body]
                  ELSE [end |-> "ok", ret |-> None]
    ELSE [end |-> "ok", ret |-> None]

\* _decoded_json: end is "raise" where a KeyError leaves it
IPGeoLocation_decoded_json(json_data) ==
    LET F(f) == Path(json_data, <<f>>)
        D(f) == Dumps(F(f).val)
        longitude == D("lat")
        latitude == D("lon")
    IN  IF \E f \in GeoFields : ~F(f).ok THEN [end |-> "raise", rec |-> None]
        ELSE [end |-> "ok", rec |->
            [ip_address |-> StrV(Strip(D("query"))),
             domain_name |-> StrV(Strip(D("org"))),
             as_number |-> StrV(Strip(FirstWord(D("as")))),
             isp_name |-> StrV(Strip(D("isp"))),
             country_code |-> StrV(Strip(D("countryCode"))),
             region_name |-> StrV(D("regionName")),
             city_name |-> StrV(Strip(D("city"))),
             longitude |-> StrV(Strip(longitude)),
             latitude |-> StrV(Strip(latitude)),
             timezone |-> StrV(Strip(D("timezone")))]]

(***************************************************************************)
(* The messages the lookups hand to colorized_text, in the order of the    *)
(* calls.  colorized_text (utilities/colorized_text) is taken to report    *)
(* the text it is given.                                                   *)
(***************************************************************************)
\* _get_whois_json (arin_whois_lookup.py:104-107)
ArinWhois_get_whois_json_text(ip_address, resp) ==
    IF resp.kind = "timeout"
    THEN <<StrV(<<"Request timed out for IP address ", ip_address>>)>>
    ELSE IF resp.kind = "connerr"
         THEN <<StrV(<<"An error occurred: ", "ConnectionError">>)>>
    ELSE <<>>
\* the except KeyError branches of the three registry helpers
ArinWhois_extraction_text(data) ==
    (IF ~Path(data, OrgPath).ok
     THEN <<StrV(<<"Registered_organization is not present in JSON data">>)>> ELSE <<>>)
    \o (IF ArinWhois_get_network_range(data) = None
        THEN <<StrV(<<"The JSON keys to obtain the network range were invalid.">>)>> ELSE <<>>)
    \o (IF ArinWhois_get_cidr_range(data) = None
        THEN <<StrV(<<"The JSON keys to obtain the CIDR range were invalid.">>)>> ELSE <<>>)
\* _get_json_data of the vendor lookup (mac_address_vendor_lookup.py:80-88)
MacAddressLookup_get_json_data_text(resp) ==
    IF IsHttp(resp, 400) THEN <<StrV(<<"An unknown error has occurred.">>)>>
    ELSE IF IsHttp(resp, 401) THEN <<StrV(<<"An Unauthorized Request has occurred.">>)>>
    ELSE IF IsHttp(resp, 429) THEN <<StrV(<<"Too Many Requests with the Rate Limit period.">>)>>
    ELSE <<>>
\* the except KeyError branches of the three vendor helpers
MacAddressLookup_extraction_text(data) ==
    LET rand == Path(data, <<"isRand">>)
    IN  (IF ~rand.ok \/ (rand.val = BoolV(FALSE) /\ ~Path(data, <<"company">>).ok)
         THEN <<StrV(<<"Registered organization is not present in JSON data">>)>> ELSE <<>>)
        \o (IF ~Path(data, <<"address">>).ok
            THEN <<StrV(<<"Registered organization's address is not present in JSON data">>)>>
            ELSE <<>>)
        \o (IF ~Path(data, <<"country">>).ok
            THEN <<StrV(<<"Registered organization's country is not present in JSON data">>)>>
            ELSE <<>>)
\* _get_json_data of the reputation lookup (ip_reputation_lookup.py:116-132)
IPReputation_get_json_data_text(resp) ==
    IF resp.kind = "connerr" THEN <<StrV(<<"A ConnectionError has occurred.">>)>>
    ELSE IF resp.kind = "timeout" THEN <<StrV(<<"A connection timeout has occurred.">>)>>
    ELSE IF resp.body # NotJson /\ resp.status \in {401, 422, 429} /\ HasErrorDetail(resp.body)
         THEN <<StrV(Strip(Dumps(Path(Path(resp.body, <<"errors">>).val.l[1],
                                      <<"detail">>).val)))>>
    ELSE <<>>
\* _get_json_data of the geolocation lookup (ip_geolocation_lookup.py:101-113)
IPGeoLocation_get_json_data_text(ip_address, resp) ==
    IF resp.kind = "connerr" THEN <<StrV(<<"A ConnectionError has occurred.">>)>>
    ELSE IF resp.kind = "timeout" THEN <<StrV(<<"A connection timeout has occurred.">>)>>
    ELSE IF resp.body # NotJson /\ resp.status = 200
            /\ Path(resp.body, <<"status">>) = [ok |-> TRUE, val |-> StrV(<<"fail">>)]
         THEN <<StrV(<<"The query failed. Please review your input data for ", ip_address>>)>>
    ELSE <<>>

(***************************************************************************)
(* What a lookup does for the i-th identifier, in the order it does it:    *)
(* sleep, the request, the test of the status code (when a response came   *)
(* back), the extraction of the fields (when the lookup gets that far).    *)
(***************************************************************************)
MinDelay == 1
MaxDelay == 3
Event(ev, i) == [ev |-> ev, i |-> i]
\* mutant of the order: the request is sent before the sleep
Events_RequestFirst(i, status, extraction) ==
    <<Event("request", i), Event("sleep", i)>>
    \o (IF status THEN <<Event("status", i)>> ELSE <<>>)
    \o (IF extraction THEN <<Event("extraction", i)>> ELSE <<>>)

Events(i, status, extraction) ==
    <<Event("sleep", i), Event("request", i)>>
    \o (IF status THEN <<Event("status", i)>> ELSE <<>>)
    \o (IF extraction THEN <<Event("extraction", i)>> ELSE <<>>)

(***************************************************************************)
(* The process: the state of one Python process that calls lookups.        *)
(***************************************************************************)
VARIABLES
    comp,           \* the lookup class in use (cli.py:45-48)
    lookup_value,   \* self.lookup_value: [list, items], a str being <<item>>
    api_key,        \* self.api_key of IPReputation (ip_reputation_lookup.py:85)
    idx,            \* position of `for item in self.lookup_value` (1-based)
    data_elements,  \* the list data_elements the entry point is filling
    result,         \* what the last call of the entry point returned
    pc,             \* "idle", "running", "returned", "exited" (sys.exit(1)),
                    \* "raised" (uncaught exception), "done" (main returned)
    arinData,       \* the class attribute ArinWhois.data (arin_whois_lookup.py:87)
    macData,        \* the class attribute MacAddressLookup.data (mac_address_vendor_lookup.py:74)
    fetched,        \* the responses the running call has received, in order
    delay,          \* randint(a=1, b=3) of the last sleep of the call, 0 before it
    events,         \* what the running call has done so far, in order
    reported,       \* per identifier of the call, the texts given to colorized_text
    command,        \* args.command (cli.py:158): "" before the process has begun,
                    \* "library" where a caller other than cli.py uses the classes,
                    \* "no_command" where argparse leaves it None
    stdout          \* the objects cli.py has printed, in order

vars == <<comp, lookup_value, api_key, idx, data_elements, result, pc, arinData, macData,
          fetched, delay, events, reported, command, stdout>>

Components == {"arin", "abuse", "geo", "mac"}
RecV(r) == [t |-> "record", rec |-> r]

\* the sequences over S of length at most n
SeqsUpTo(S, n) == UNION {[1..k -> S] : k \in 0..n}
\* the values of lookup_value: one str, or a list of at most MaxLen of them
Inputs ==
    {[list |-> FALSE, items |-> <<x>>] : x \in Ids}
    \cup {[list |-> TRUE, items |-> l] : l \in SeqsUpTo(Ids, MaxLen)}
\* the credentials a caller may pass; the other three classes take none
Keys == {"key1"}
NoKey == ""
KeysOf(c) == IF c = "abuse" THEN Keys ELSE {NoKey}
\* what argparse hands to run_<command>: nargs='+' makes the arin argument a
\* non-empty list, the other subcommands take one str
CliInputs(c) ==
    IF c = "arin"
    THEN {[list |-> TRUE, items |-> l] : l \in SeqsUpTo(Ids, MaxLen) \ {<<>>}}
    ELSE {[list |-> FALSE, items |-> <<x>>] : x \in Ids}
\* the text parser.print_help() writes
Help == StrV(<<"usage">>)

Init ==
    /\ comp = "none"
    /\ lookup_value = [list |-> TRUE, items |-> <<>>]
    /\ api_key = NoKey
    /\ idx = 1
    /\ data_elements = <<>>
    /\ result = None
    /\ pc = "idle"
    /\ arinData = EmptyDict
    /\ macData = EmptyDict
    /\ fetched = <<>>
    /\ delay = 0
    /\ events = <<>>
    /\ reported = <<>>
    /\ command = ""
    /\ stdout = <<>>

\* the constructor and the entry of the public method of component c; the four
\* classes share no state, so a process is modelled as using one of them
Start(c, lv, key) ==
    /\ pc \in {"idle", "returned"}
    /\ comp \in {"none", c}
    /\ comp' = c
    /\ lookup_value' = lv
    /\ api_key' = key
    /\ idx' = 1
    /\ data_elements' = <<>>
    /\ result' = None
    /\ fetched' = <<>>
    /\ delay' = 0
    /\ events' = <<>>
    /\ reported' = <<>>
    /\ pc' = "running"
    /\ UNCHANGED <<arinData, macData, stdout>>

Running(c) == pc = "running" /\ comp = c /\ idx <= Len(lookup_value.items)
Item == lookup_value.items[idx]

\* mutant of the append: the dict is put at the front of the list
Yield_Prepend(rec) ==
    /\ idx' = idx + 1
    /\ IF lookup_value.list
       THEN /\ data_elements' = <<rec>> \o data_elements
            /\ UNCHANGED <<result, pc>>
       ELSE /\ result' = RecV(rec)
            /\ pc' = "returned"
            /\ UNCHANGED data_elements

\* the identifier yielded the dict rec: a str call returns it, a list call appends it
Yield(rec) ==
    /\ idx' = idx + 1
    /\ IF lookup_value.list
       THEN /\ data_elements' = Append(data_elements, rec)
            /\ UNCHANGED <<result, pc>>
       ELSE /\ result' = RecV(rec)
            /\ pc' = "returned"
            /\ UNCHANGED data_elements

\* mutant of the skip: a list call keeps a None in the place of the identifier
Skip_Placeholder ==
    /\ idx' = idx + 1
    /\ IF lookup_value.list
       THEN /\ data_elements' = Append(data_elements, None)
            /\ UNCHANGED <<result, pc>>
       ELSE /\ result' = None
            /\ pc' = "returned"
            /\ UNCHANGED data_elements

\* the identifier yielded nothing: a str call returns None, a list call goes on
Skip ==
    /\ idx' = idx + 1
    /\ IF lookup_value.list
       THEN UNCHANGED <<result, pc, data_elements>>
       ELSE /\ result' = None
            /\ pc' = "returned"
            /\ UNCHANGED data_elements

\* the process ends inside the call: sys.exit(1) or an exception nobody catches
Die(end) ==
    /\ pc' = (IF end = "exit" THEN "exited" ELSE "raised")
    /\ UNCHANGED <<idx, data_elements, result>>

\* the fetch of the identifier in hand: the sleep, the request and its outcome
Fetch(resp, status, extraction, texts) ==
    /\ fetched' = Append(fetched, resp)
    /\ events' = events \o Events(idx, status, extraction)
    /\ reported' = Append(reported, texts)
    /\ \E d \in MinDelay..MaxDelay : delay' = d

\* query_whois, one identifier
ArinStep ==
    /\ Running("arin")
    /\ \E resp \in ArinResponses(Item) :
        LET data == ArinWhois_get_whois_json(arinData, resp)
        IN  /\ arinData' = data
            /\ Yield(ArinRecord(Item, data))
            /\ Fetch(resp, resp.kind = "http", TRUE,
                     ArinWhois_get_whois_json_text(Item, resp)
                        \o ArinWhois_extraction_text(data))
    /\ UNCHANGED <<comp, lookup_value, api_key, macData, command, stdout>>

\* lookup_address_information, one identifier
MacStep ==
    /\ Running("mac")
    /\ \E resp \in MacResponses(Item) :
        LET got == MacAddressLookup_get_json_data(macData, resp)
        IN  /\ macData' = got.data
            /\ IF got.end = "ok" THEN Yield(MacRecord(Item, got.data)) ELSE Die(got.end)
            /\ Fetch(resp, resp.kind = "http", got.end = "ok",
                     MacAddressLookup_get_json_data_text(resp)
                        \o (IF got.end = "ok" THEN MacAddressLookup_extraction_text(got.data)
                            ELSE <<>>))
    /\ UNCHANGED <<comp, lookup_value, api_key, arinData, command, stdout>>

\* query_abuse_database, one identifier
AbuseStep ==
    /\ Running("abuse")
    /\ \E resp \in AbuseResponses(Item) :
        LET got == IPReputation_get_json_data(resp)
            dec == IPReputation_decoded_json(got.ret)
        IN  /\ IF got.end # "ok" THEN Die(got.end)
               ELSE IF ~Truthy(got.ret) THEN Skip
               ELSE IF dec.end = "ok" THEN Yield(dec.rec)
               ELSE Die(dec.end)
            /\ Fetch(resp, resp.kind = "http" /\ resp.body # NotJson,
                     got.end = "ok" /\ Truthy(got.ret),
                     IPReputation_get_json_data_text(resp))
    /\ UNCHANGED <<comp, lookup_value, api_key, arinData, macData, command, stdout>>

\* query_geolocation_database, one identifier
GeoStep ==
    /\ Running("geo")
    /\ \E resp \in GeoResponses(Item) :
        LET got == IPGeoLocation_get_json_data(resp)
            dec == IPGeoLocation_decoded_json(got.ret)
        IN  /\ IF got.end # "ok" THEN Die(got.end)
               ELSE IF ~Truthy(got.ret) THEN Skip
               ELSE IF dec.end = "ok" THEN Yield(dec.rec)
               ELSE Die(dec.end)
            /\ Fetch(resp, resp.kind = "http" /\ resp.body # NotJson,
                     got.end = "ok" /\ Truthy(got.ret),
                     IPGeoLocation_get_json_data_text(Item, resp))
    /\ UNCHANGED <<comp, lookup_value, api_key, arinData, macData, command, stdout>>

\* mutant of the return: the list is returned once the first identifier is done
Return_AfterFirst ==
    /\ pc = "running"
    /\ lookup_value.list
    /\ idx > 1 \/ Len(lookup_value.items) = 0
    /\ result' = ListV(data_elements)
    /\ pc' = "returned"
    /\ UNCHANGED <<comp, lookup_value, api_key, idx, data_elements, arinData, macData,
                   fetched, delay, events, reported, command, stdout>>

\* the for loop of a list call is over: return data_elements
Return ==
    /\ pc = "running"
    /\ lookup_value.list
    /\ idx > Len(lookup_value.items)
    /\ result' = ListV(data_elements)
    /\ pc' = "returned"
    /\ UNCHANGED <<comp, lookup_value, api_key, idx, data_elements, arinData, macData,
                   fetched, delay, events, reported, command, stdout>>

\* a program that imports the classes constructs a lookup and calls it
StartCall ==
    /\ command \in {"", "library"}
    /\ command' = "library"
    /\ \E c \in Components : \E lv \in Inputs : \E key \in KeysOf(c) : Start(c, lv, key)

\* main with a subcommand: run_<command> constructs the lookup and calls it
CliCommand ==
    /\ command = ""
    /\ \E c \in Components : \E lv \in CliInputs(c) : \E key \in KeysOf(c) :
        /\ command' = c
        /\ Start(c, lv, key)

\* main without a subcommand: parser.print_help() and sys.exit(1)
CliNoCommand ==
    /\ command = ""
    /\ pc = "idle"
    /\ command' = "no_command"
    /\ stdout' = Append(stdout, Help)
    /\ pc' = "exited"
    /\ UNCHANGED <<comp, lookup_value, api_key, idx, data_elements, result, arinData, macData,
                   fetched, delay, events, reported>>

\* the lookup returned to run_<command>: print(result), and main's print(args.api_key)
\* after run_ip_reputation
CliPrint ==
    /\ command \in Components
    /\ pc = "returned"
    /\ stdout' = stdout \o <<result>>
                    \o (IF command = "abuse" THEN <<StrV(<<api_key>>)>> ELSE <<>>)
    /\ pc' = "done"
    /\ UNCHANGED <<comp, lookup_value, api_key, idx, data_elements, result, arinData, macData,
                   fetched, delay, events, reported, command>>

Next ==
    \/ StartCall \/ ArinStep \/ MacStep \/ AbuseStep \/ GeoStep \/ Return
    \/ CliCommand \/ CliNoCommand \/ CliPrint

Spec == Init /\ [][Next]_vars

(***************************************************************************)
(* Vocabulary of the properties.                                           *)
(***************************************************************************)
Items == lookup_value.items
IsStatus(resp, status) == resp.kind = "http" /\ resp.status = status
\* the fetch for one identifier of component c returned data: HTTP 200 with a
\* non-empty JSON document (for the geolocation source, one of status "success")
FetchSucceeded(c, resp) ==
    /\ IsStatus(resp, 200)
    /\ resp.body # NotJson
    /\ Truthy(resp.body)
    /\ c = "geo" => Path(resp.body, <<"status">>) = [ok |-> TRUE, val |-> StrV(<<"success">>)]
\* the Record of identifier item read from the document body alone
Expected(c, item, body) ==
    CASE c = "arin" -> ArinRecord(item, body)
      [] c = "mac" -> MacRecord(item, body)
      [] c = "abuse" -> IPReputation_decoded_json(body).rec
      [] OTHER -> IPGeoLocation_decoded_json(body).rec
\* every consumed field of component c is in the document
Complete(c, item, body) ==
    CASE c = "arin" -> body \in {ArinFull(item), ArinBlank(item)}
      [] c = "mac" -> body \in {MacFull(item, TRUE), MacFull(item, FALSE), MacBlank(item)}
      [] c = "abuse" -> body \in {AbuseFull(item, score) : score \in Scores}
      [] OTHER -> body = GeoFull(item)
\* the field of a Record that names the identifier, and its value for item
KeyedTo(c, rec, item) ==
    CASE c = "arin" -> rec.ip_address = StrV(<<item>>)
      [] c = "mac" -> rec.mac_address = StrV(<<item>>)
      [] c = "abuse" -> rec.ip_address = Val("ipAddress", item)
      [] OTHER -> rec.ip_address = Val("query", item)
\* the Records of the identifiers from position i on whose fetch returned data
RECURSIVE Kept(_, _)
Kept(c, i) ==
    IF i > Len(fetched) THEN <<>>
    ELSE IF FetchSucceeded(c, fetched[i])
         THEN <<Expected(c, Items[i], fetched[i].body)>> \o Kept(c, i + 1)
         ELSE Kept(c, i + 1)
\* the geolocation source answered 200 with a document of status "fail"
SoftFail(c, resp) ==
    /\ c = "geo" /\ IsStatus(resp, 200) /\ resp.body # NotJson
    /\ Path(resp.body, <<"status">>) = [ok |-> TRUE, val |-> StrV(<<"fail">>)]
\* the fetch returned no data: a status other than 200, a soft failure, a
\* timeout or a connection error
NoData(c, resp) == ~IsStatus(resp, 200) \/ SoftFail(c, resp)
\* the fetch failed in a way no section of the specification calls fatal: a soft
\* failure, a status other than 200, 400, 401 (and 429 at the vendor source), or
\* a timeout or connection error at the registry or reputation source
FailedNonFatally(c, resp) ==
    \/ SoftFail(c, resp)
    \/ resp.kind = "http" /\ resp.status \notin {200, 400, 401}
                          /\ ~(c = "mac" /\ resp.status = 429)
    \/ resp.kind # "http" /\ c \in {"arin", "abuse"}
ListReturned == pc = "returned" /\ lookup_value.list
StrReturned == pc = "returned" /\ ~lookup_value.list

(***************************************************************************)
(* C1: a list lookup whose fetches all succeed returns exactly one Record  *)
(* per identifier, the i-th Record keyed to the i-th identifier and read   *)
(* from the i-th response; and while every response so far carries all the *)
(* consumed fields the call neither exits nor raises.                      *)
(***************************************************************************)
C1_AllSucceed ==
    /\ (ListReturned /\ \A i \in 1..Len(fetched) : FetchSucceeded(comp, fetched[i]))
        => /\ result.t = "list"
           /\ Len(result.l) = Len(Items)
           /\ \A i \in 1..Len(Items) :
                /\ result.l[i] = Expected(comp, Items[i], fetched[i].body)
                /\ KeyedTo(comp, result.l[i], Items[i])
    /\ (comp \in Components /\ \A i \in 1..Len(fetched) :
            IsStatus(fetched[i], 200) /\ Complete(comp, Items[i], fetched[i].body))
        => pc \notin {"exited", "raised"}
\* a reputation lookup over two different identifiers has returned two Records
C1_Witness ==
    /\ ListReturned /\ comp = "abuse" /\ Items = <<"id1", "id2">>
    /\ \A i \in 1..2 : FetchSucceeded(comp, fetched[i])
    /\ Len(result.l) = 2

(***************************************************************************)
(* C2 as stated: a list lookup that returns gives exactly one Record per   *)
(* identifier, whatever the fetches did.                                   *)
(***************************************************************************)
C2_OnePerIdentifier ==
    (ListReturned /\ \A i \in 1..Len(fetched) :
            FetchSucceeded(comp, fetched[i]) \/ FailedNonFatally(comp, fetched[i]))
        => result.t = "list" /\ Len(result.l) = Len(Items)
(***************************************************************************)
(* C2 amended: a list lookup that returns gives at most N Records in input *)
(* order: the registry and vendor lookups exactly N, the i-th keyed to the *)
(* i-th identifier; the reputation and geolocation lookups exactly the     *)
(* Records of the identifiers whose fetch returned data, in input order.   *)
(***************************************************************************)
C2_Amended ==
    ListReturned =>
        /\ result.t = "list"
        /\ Len(result.l) <= Len(Items)
        /\ comp \in {"arin", "mac"} =>
            /\ Len(result.l) = Len(Items)
            /\ \A i \in 1..Len(Items) : KeyedTo(comp, result.l[i], Items[i])
        /\ comp \in {"abuse", "geo"} => result.l = Kept(comp, 1)
\* a reputation lookup over two identifiers dropped the first (422) and kept the second
C2_Witness ==
    /\ ListReturned /\ comp = "abuse" /\ Items = <<"id1", "id2">>
    /\ IsStatus(fetched[1], 422) /\ FetchSucceeded(comp, fetched[2])
    /\ Len(result.l) = 1
    /\ KeyedTo(comp, result.l[1], "id2")

(***************************************************************************)
(* C3: in a registry or vendor lookup over a list, the Record of an        *)
(* identifier whose fetch returned no data holds no organization, network, *)
(* cidr (registered_organization, organization_address, country) value     *)
(* read from the response of an earlier identifier of the list.            *)
(***************************************************************************)
ExtractedFields(c) ==
    IF c = "arin" THEN {"organization", "network", "cidr"}
    ELSE {"registered_organization", "organization_address", "country"}
C3_NoCarryOver ==
    (comp \in {"arin", "mac"} /\ lookup_value.list) =>
        \A i \in 1..Len(data_elements) : \A j \in 1..(i - 1) :
            (NoData(comp, fetched[i]) /\ FetchSucceeded(comp, fetched[j])) =>
                \A f \in ExtractedFields(comp) :
                    \/ data_elements[i][f] = None
                    \/ data_elements[i][f] # Expected(comp, Items[j], fetched[j].body)[f]

(***************************************************************************)
(* C4: no state persists between calls: what a call returns is what the    *)
(* same call, given the same input and the same responses, returns in a    *)
(* process that made no earlier call.                                      *)
(***************************************************************************)
\* the Records a registry or vendor call yields from position i on when the
\* response slot holds data before position i
RECURSIVE Threaded(_, _, _)
Threaded(c, i, data) ==
    IF i > Len(fetched) THEN <<>>
    ELSE LET next == IF FetchSucceeded(c, fetched[i]) THEN fetched[i].body ELSE data
         IN  <<Expected(c, Items[i], next)>> \o Threaded(c, i + 1, next)
\* the Records of the running call in a process whose earlier history is empty
FreshRecords(c) == IF c \in {"arin", "mac"} THEN Threaded(c, 1, EmptyDict) ELSE Kept(c, 1)
C4_NoStateBetweenCalls ==
    /\ ListReturned => result = ListV(FreshRecords(comp))
    /\ StrReturned =>
        result = (IF FreshRecords(comp) = <<>> THEN None ELSE RecV(FreshRecords(comp)[1]))

(***************************************************************************)
(* C5: once the reputation source has answered 401 to a request of the     *)
(* call, the process is terminated: the call is neither still running nor  *)
(* has it returned anything to its caller.                                 *)
(***************************************************************************)
C5_UnauthorizedIsFatal ==
    (comp = "abuse" /\ \E i \in 1..Len(fetched) : IsStatus(fetched[i], 401))
        => pc \in {"exited", "raised"}

(***************************************************************************)
(* C6: a 200 answer of status "fail" from the geolocation source yields no *)
(* Record for that identifier and does not end the process: a str lookup   *)
(* returns None, a list lookup returns the Records of exactly the other    *)
(* identifiers that returned data, in order.                               *)
(***************************************************************************)
C6_SoftFailSkipped ==
    comp = "geo" =>
        /\ (fetched # <<>> /\ SoftFail(comp, fetched[Len(fetched)]))
            => /\ pc \notin {"exited", "raised"}
               /\ StrReturned => result = None
               /\ lookup_value.list => data_elements = Kept(comp, 1)
        /\ (ListReturned /\ \E i \in 1..Len(fetched) : SoftFail(comp, fetched[i]))
            => /\ result = ListV(Kept(comp, 1))
               /\ Len(result.l) < Len(Items)
\* a geolocation lookup over two identifiers skipped the first and kept the second
C6_Witness ==
    /\ ListReturned /\ comp = "geo" /\ Items = <<"id1", "id2">>
    /\ SoftFail(comp, fetched[1]) /\ FetchSucceeded(comp, fetched[2])
    /\ result = ListV(<<Expected(comp, "id2", GeoFull("id2"))>>)

(***************************************************************************)
(* C7: a str lookup whose 200 response lacks exactly one consumed field    *)
(* returns a Record in which the fields fed by the missing one are None or *)
(* a sentinel and every other field is as in the Record of the complete    *)
(* response.                                                               *)
(***************************************************************************)
Fields(c) ==
    CASE c = "arin" -> ArinFields [] c = "mac" -> MacFields
      [] c = "abuse" -> AbuseFields [] OTHER -> GeoFields
\* the complete document of component c for x, and the one lacking field f
FullBody(c, x) ==
    CASE c = "arin" -> ArinFull(x) [] c = "mac" -> MacFull(x, FALSE)
      [] c = "abuse" -> AbuseFull(x, 50) [] OTHER -> GeoFull(x)
MissingBody(c, x, f) ==
    CASE c = "arin" -> ArinMissing(x, f) [] c = "mac" -> MacMissing(x, FALSE, f)
      [] c = "abuse" -> AbuseMissing(x, f) [] OTHER -> GeoMissing(x, f)
\* the Record fields that the code reads out of the source field f
FedBy(c, f) ==
    CASE c = "arin" ->
            (CASE f = "org" -> {"organization"} [] f = "start" -> {"network", "cidr"}
               [] f = "end" -> {"network"} [] OTHER -> {"cidr"})
      [] c = "mac" ->
            (CASE f \in {"isRand", "company"} -> {"registered_organization"}
               [] f = "address" -> {"organization_address"} [] OTHER -> {"country"})
      [] c = "abuse" ->
            (CASE f = "ipAddress" -> {"ip_address"} [] f = "domain" -> {"domain_name"}
               [] f = "hostnames" -> {"host_name"} [] f = "usageType" -> {"usage_type"}
               [] f = "isp" -> {"isp_name"} [] f = "countryCode" -> {"country_code"}
               [] f = "abuseConfidenceScore" -> {"confidence_of_abuse", "level_of_abuse"}
               [] f = "isWhitelisted" -> {"white_listed"} [] f = "isTor" -> {"tor_node"}
               [] f = "totalReports" -> {"number_of_times_reported"}
               [] OTHER -> {"date_last_reported"})
      [] OTHER ->
            (CASE f = "query" -> {"ip_address"} [] f = "org" -> {"domain_name"}
               [] f = "isp" -> {"isp_name"} [] f = "countryCode" -> {"country_code"}
               [] f = "regionName" -> {"region_name"} [] f = "city" -> {"city_name"}
               [] f = "lat" -> {"longitude"} [] f = "lon" -> {"latitude"}
               [] f = "timezone" -> {"timezone"} [] OTHER -> {"as_number"})
Sentinels ==
    {StrV(<<w>>) : w \in {"registered organization unavailable", "netblock range unavailable",
                          "CIDR range unavailable", "address unavailable",
                          "country unavailable"}}
C7_OneMissingField ==
    \A f \in Fields(comp) :
        (/\ comp \in Components /\ ~lookup_value.list /\ Len(fetched) = 1
         /\ fetched[1] = Http(200, MissingBody(comp, Items[1], f)))
        => /\ pc = "returned"
           /\ result.t = "record"
           /\ \A g \in DOMAIN result.rec :
                IF g \in FedBy(comp, f)
                THEN result.rec[g] \in Sentinels \cup {None}
                ELSE result.rec[g] = Expected(comp, Items[1], FullBody(comp, Items[1]))[g]

(***************************************************************************)
(* C8: extraction never fails the lookup: a call whose latest fetch        *)
(* returned data, with whatever consumed fields absent, is not ended by an *)
(* exception; it yields a Record and, over a list, goes on.                *)
(***************************************************************************)
C8_ExtractionNeverFails ==
    (fetched # <<>> /\ FetchSucceeded(comp, fetched[Len(fetched)]))
        => /\ pc # "raised"
           /\ lookup_value.list => Len(data_elements) >= 1
           /\ StrReturned => result.t = "record"

(***************************************************************************)
(* C9: a str lookup returns a Record only when its fetch succeeded; when   *)
(* the fetch produced no data it returns None.                             *)
(***************************************************************************)
C9_NoDataGivesNone ==
    (StrReturned /\ Len(fetched) = 1) =>
        /\ NoData(comp, fetched[1]) => result = None
        /\ result.t = "record" => FetchSucceeded(comp, fetched[1])

(***************************************************************************)
(* C10: the abuse-level label of a reputation Record is the band of the    *)
(* response's confidence score: 0, (0,25], (25,100), 100, and no label     *)
(* below 0 or above 100.                                                   *)
(***************************************************************************)
AbuseLevelBand(score) ==
    IF score = 0 THEN StrV(<<"not malicious">>)
    ELSE IF 0 < score /\ score <= 25
         THEN StrV(<<"likely not malicious but warrants further investigation">>)
    ELSE IF 25 < score /\ score < 100
         THEN StrV(<<"likely malicious and warrants further investigation">>)
    ELSE IF score = 100 THEN StrV(<<"is malicious and warrants additional investigation">>)
    ELSE None
C10_AbuseLevelBands ==
    (comp = "abuse" /\ StrReturned /\ result.t = "record") =>
        \A score \in Scores :
            fetched[1] = Http(200, AbuseFull(Items[1], score))
                => result.rec.level_of_abuse = AbuseLevelBand(score)

(***************************************************************************)
(* C11 as stated: in a vendor Record read from a response, the             *)
(* registered_organization is "randomly assigned" when isRand is true and  *)
(* the response's company whenever isRand is not true.                     *)
(***************************************************************************)
\* the Records the running or returned call has produced so far, in order
Produced ==
    IF lookup_value.list THEN data_elements
    ELSE IF pc = "returned" /\ result.t = "record" THEN <<result.rec>>
    ELSE <<>>
IsRandTrue(body) == Path(body, <<"isRand">>) = [ok |-> TRUE, val |-> BoolV(TRUE)]
IsRandFalse(body) == Path(body, <<"isRand">>) = [ok |-> TRUE, val |-> BoolV(FALSE)]
C11_RandomOrCompany ==
    comp = "mac" =>
        \A i \in 1..Len(Produced) :
            FetchSucceeded(comp, fetched[i]) =>
                LET body == fetched[i].body
                    org == Produced[i].registered_organization
                IN  /\ IsRandTrue(body) => org = StrV(<<"randomly assigned">>)
                    /\ (~IsRandTrue(body) /\ Path(body, <<"company">>).ok)
                        => org = Path(body, <<"company">>).val
(***************************************************************************)
(* C11 amended: registered_organization is "randomly assigned" when isRand *)
(* is true, whatever company is and whether or not it is present; it is    *)
(* the response's company when isRand is false (None when the response has *)
(* no company); it is None when the response has no isRand.                *)
(***************************************************************************)
C11_Amended ==
    comp = "mac" =>
        \A i \in 1..Len(Produced) :
            FetchSucceeded(comp, fetched[i]) =>
                LET body == fetched[i].body
                    org == Produced[i].registered_organization
                    company == Path(body, <<"company">>)
                IN  /\ IsRandTrue(body) => org = StrV(<<"randomly assigned">>)
                    /\ IsRandFalse(body) => org = (IF company.ok THEN company.val ELSE None)
                    /\ ~Path(body, <<"isRand">>).ok => org = None
\* a vendor lookup returned "randomly assigned" for a response of isRand true without company
C11_Witness ==
    /\ comp = "mac" /\ StrReturned
    /\ fetched = <<Http(200, MacMissing(Items[1], TRUE, "company"))>>
    /\ result.rec.registered_organization = StrV(<<"randomly assigned">>)

(***************************************************************************)
(* C13: in the vendor lookup a response of status 400, 401 or 429 ends the *)
(* process: it is the last response the lookup receives (no later          *)
(* identifier is fetched), the process has exited, and the caller has      *)
(* received no Record and no list.                                         *)
(***************************************************************************)
C13_VendorStatusFatal ==
    comp = "mac" =>
        \A i \in 1..Len(fetched) :
            (\E status \in {400, 401, 429} : IsStatus(fetched[i], status)) =>
                /\ i = Len(fetched)
                /\ pc = "exited"
                /\ result = None
\* a vendor lookup over two identifiers got a Record for the first and a 429 for the second
C13_Witness ==
    /\ comp = "mac" /\ lookup_value.list /\ Len(Items) = 2
    /\ Len(fetched) = 2 /\ FetchSucceeded(comp, fetched[1]) /\ IsStatus(fetched[2], 429)
    /\ Len(data_elements) = 1
    /\ pc = "exited"

(***************************************************************************)
(* C18: the list a reputation or geolocation lookup returns is an          *)
(* order-preserving subsequence of the input: it has one Record for each   *)
(* identifier whose fetch returned data and no other, at most N in all,    *)
(* and the Record of such an identifier stands at the position that counts *)
(* the identifiers with data up to it, so never before the Record of an    *)
(* earlier identifier.                                                     *)
(***************************************************************************)
\* the positions of the identifiers whose fetch returned data
KeptIdx(c) == {i \in 1..Len(fetched) : FetchSucceeded(c, fetched[i])}
\* the number of identifiers with data up to position i
Rank(c, i) == Cardinality({j \in KeptIdx(c) : j <= i})
C18_OrderPreservingSubsequence ==
    (comp \in {"abuse", "geo"} /\ ListReturned) =>
        /\ result.t = "list"
        /\ Len(result.l) = Cardinality(KeptIdx(comp))
        /\ Len(result.l) <= Len(Items)
        /\ \A i \in KeptIdx(comp) :
            /\ KeyedTo(comp, result.l[Rank(comp, i)], Items[i])
            /\ \A j \in KeptIdx(comp) : j < i => Rank(comp, j) < Rank(comp, i)
\* a geolocation lookup over two different identifiers dropped the first (soft
\* failure) and returned the Record of the second alone
C18_Witness ==
    /\ comp = "geo" /\ ListReturned /\ Items = <<"id1", "id2">>
    /\ SoftFail(comp, fetched[1]) /\ FetchSucceeded(comp, fetched[2])
    /\ Len(result.l) = 1
    /\ KeyedTo(comp, result.l[1], "id2")

(***************************************************************************)
(* C19: in every geolocation Record the latitude field carries the value   *)
(* of the lat field of the response the Record was read from, and the      *)
(* longitude field the value of its lon field.                             *)
(***************************************************************************)
C19_CoordinatesSameNamed ==
    comp = "geo" =>
        \A i \in KeptIdx(comp) :
            Rank(comp, i) <= Len(Produced) =>
                LET rec == Produced[Rank(comp, i)]
                    body == fetched[i].body
                IN  /\ rec.latitude = StrV(Strip(Dumps(Path(body, <<"lat">>).val)))
                    /\ rec.longitude = StrV(Strip(Dumps(Path(body, <<"lon">>).val)))

(***************************************************************************)
(* C12 as stated: a timeout or connection error during a fetch is reported *)
(* by every lookup; it ends the process of a geolocation or vendor lookup, *)
(* with no result and no later fetch; a registry or reputation lookup goes *)
(* on, and a list lookup that returns has fetched every identifier.        *)
(***************************************************************************)
NetworkFailure(resp) == resp.kind # "http"
Terminated == pc \in {"exited", "raised"}
C12_NetworkFailure ==
    comp \in Components =>
        \A i \in 1..Len(fetched) :
            NetworkFailure(fetched[i]) =>
                /\ reported[i] # <<>>
                /\ comp \in {"geo", "mac"} =>
                    Terminated /\ i = Len(fetched) /\ result = None
                /\ comp \in {"arin", "abuse"} =>
                    /\ i = Len(fetched) => ~Terminated
                    /\ ListReturned => Len(fetched) = Len(Items)
(***************************************************************************)
(* C12 amended: a timeout or connection error is reported and ends the     *)
(* process by sys.exit(1) in the geolocation and the reputation lookup; it *)
(* ends the process of the vendor lookup by an exception nobody catches,   *)
(* with no message of the lookup's own; in all three no result is returned *)
(* and no later identifier is fetched.  The registry lookup reports it,    *)
(* still builds the identifier's Record and goes on: a list lookup that    *)
(* returns has fetched every identifier.                                   *)
(***************************************************************************)
C12_Amended ==
    comp \in Components =>
        \A i \in 1..Len(fetched) :
            NetworkFailure(fetched[i]) =>
                /\ comp \in {"geo", "abuse"} =>
                    /\ reported[i] =
                        <<IF fetched[i] = Timeout
                          THEN StrV(<<"A connection timeout has occurred.">>)
                          ELSE StrV(<<"A ConnectionError has occurred.">>)>>
                    /\ pc = "exited" /\ i = Len(fetched) /\ result = None
                /\ comp = "mac" =>
                    /\ reported[i] = <<>>
                    /\ pc = "raised" /\ i = Len(fetched) /\ result = None
                /\ comp = "arin" =>
                    /\ reported[i] # <<>>
                    /\ reported[i][1] =
                        (IF fetched[i] = Timeout
                         THEN StrV(<<"Request timed out for IP address ", Items[i]>>)
                         ELSE StrV(<<"An error occurred: ", "ConnectionError">>))
                    /\ ~Terminated
                    /\ lookup_value.list => KeyedTo(comp, data_elements[i], Items[i])
                    /\ ListReturned => Len(fetched) = Len(Items)
\* a reputation lookup over two identifiers got data for the first and a timeout
\* for the second: it reported the timeout and exited
C12_Witness ==
    /\ comp = "abuse" /\ lookup_value.list /\ Len(Items) = 2
    /\ Len(fetched) = 2 /\ FetchSucceeded(comp, fetched[1]) /\ fetched[2] = Timeout
    /\ reported[2] = <<StrV(<<"A connection timeout has occurred.">>)>>
    /\ pc = "exited"

(***************************************************************************)
(* C14: in the reputation lookup a response of status 422, 429 or any      *)
(* status the code does not name does not end the process and gives no     *)
(* Record for its identifier, and nothing is reported for a status the     *)
(* code does not name.                                                     *)
(***************************************************************************)
C14_ReputationNonFatal ==
    comp = "abuse" =>
        /\ Len(Produced) <= Cardinality(KeptIdx(comp))
        /\ \A i \in 1..Len(fetched) :
            (fetched[i].kind = "http" /\ fetched[i].status \notin {200, 401}) =>
                /\ i = Len(fetched) => ~Terminated
                /\ fetched[i].status \notin {422, 429} => reported[i] = <<>>

(***************************************************************************)
(* C15: a lookup works on one identifier at a time: its events are, for    *)
(* identifier 1, 2, ... in turn, a sleep, then at once the request, then   *)
(* the test of the status, then the extraction (the last two where the     *)
(* lookup gets that far); every request has its own sleep right before it, *)
(* of 1 to 3 time units; the sleep of the next identifier comes only after *)
(* all events of the one before.                                           *)
(***************************************************************************)
Order(ev) ==
    CASE ev = "sleep" -> 1 [] ev = "request" -> 2 [] ev = "status" -> 3 [] OTHER -> 4
C15_SequentialPaced ==
    /\ events # <<>> => (events[1] = Event("sleep", 1) /\ delay \in 1..3)
    /\ \A i \in 1..Len(fetched) :
        Cardinality({k \in 1..Len(events) : events[k] = Event("request", i)}) = 1
    /\ \A k \in 1..Len(events) :
        /\ events[k].i \in 1..Len(fetched)
        /\ events[k].ev = "request" =>
            (k > 1 /\ events[k - 1] = Event("sleep", events[k].i))
        /\ events[k].ev = "sleep" =>
            (k < Len(events) /\ events[k + 1] = Event("request", events[k].i))
        /\ k < Len(events) =>
            \/ /\ events[k + 1].i = events[k].i
               /\ Order(events[k + 1].ev) > Order(events[k].ev)
            \/ /\ events[k + 1] = Event("sleep", events[k].i + 1)
               /\ events[k].ev # "sleep"
\* a registry lookup over two identifiers has gone through both, one after the other
C15_Witness ==
    /\ comp = "arin" /\ ListReturned /\ Len(Items) = 2
    /\ events = <<Event("sleep", 1), Event("request", 1), Event("status", 1),
                  Event("extraction", 1), Event("sleep", 2), Event("request", 2),
                  Event("status", 2), Event("extraction", 2)>>
    /\ delay = 3

(***************************************************************************)
(* C16: no retry, and every lookup ends.  A lookup over N identifiers has  *)
(* sent one request for each identifier it has reached and none for the    *)
(* others, so at most N; exactly N when it returns (one for a str).  While *)
(* it runs a step is always possible, and every step either ends the call  *)
(* (a return or the end of the process) or sends the request of the next   *)
(* identifier, leaving the responses received so far as they are.          *)
(***************************************************************************)
LookupStep == ArinStep \/ MacStep \/ AbuseStep \/ GeoStep \/ Return
C16_Requests ==
    comp \in Components =>
        /\ Len(fetched) <= Len(Items)
        /\ Len(fetched) = (IF Terminated THEN idx ELSE idx - 1)
        /\ pc \in {"returned", "done"} => Len(fetched) = Len(Items)
        /\ pc = "running" => ENABLED LookupStep
C16_Progress ==
    pc = "running" =>
        \/ pc' # "running"
        \/ /\ Len(fetched') = Len(fetched) + 1
           /\ SubSeq(fetched', 1, Len(fetched)) = fetched
           /\ idx' = idx + 1
C16_NoRetryTerminates == [](C16_Requests) /\ [][C16_Progress]_vars
\* a registry lookup over two identifiers timed out on the first, went on to the
\* second and returned after exactly two requests
C16_Witness ==
    /\ comp = "arin" /\ ListReturned /\ Len(Items) = 2
    /\ fetched[1] = Timeout
    /\ Len(fetched) = 2

(***************************************************************************)
(* C17: cli.py writes nothing but the result of the lookup, once, when the *)
(* lookup has returned; it never writes the credential of the reputation   *)
(* subcommand; without a subcommand it writes the help text, makes no      *)
(* lookup and exits with a status other than zero.                         *)
(***************************************************************************)
C17_CliOutput ==
    /\ command \in Components =>
        /\ stdout = (IF pc = "done" THEN <<result>> ELSE <<>>)
        /\ \A k \in 1..Len(stdout) : stdout[k] # StrV(<<api_key>>)
    /\ command = "no_command" =>
        /\ stdout = <<Help>>
        /\ fetched = <<>> /\ events = <<>>
        /\ pc = "exited"

====
